---- MODULE Spec2Model ----
(***************************************************************************)
(* A model of the go-zaya client (src/client.go): construction, request    *)
(* building, the two domain operations CreateLink and GetLink, the         *)
(* transport handle setter and the response-to-error normalisation         *)
(* checkForError.                                                          *)
(*                                                                         *)
(* Text is a sequence of chunks.  A separator ("/" or ": ") that the code  *)
(* inserts, strips or tests for is always a chunk of its own, and no other *)
(* chunk begins or ends with one, so concatenation (\o), strings.Join,     *)
(* strings.TrimRight and strconv.Itoa are computed on the text as the Go   *)
(* code computes them.                                                     *)
(***************************************************************************)
EXTENDS Integers, Sequences, FiniteSets, TLC

VARIABLES
    \* ---- the client object and the transport handles it may point to
    basePathArg,   \* the basePath argument NewClient was called with
    optionsArg,    \* the options NewClient was called with
    g,             \* the GoZaya value: basePath, restyClient, Config
    handles,       \* heap of resty clients: handle -> [timeout]
    last,          \* the last client-level operation and its argument
    \* ---- the calls in flight
    calls,         \* call slot -> the locals of one CreateLink/GetLink call
    errStore,      \* heap of HTTPErrorResponse locations: location -> value
    \* ---- checkForError applied to arbitrary arguments
    argResp, argErr, argMsg, retErr, pcCheck,
    \* ---- CreateLink's form built from an arbitrary GenerateLinkRequest
    link, form, pcForm

vars == <<basePathArg, optionsArg, g, handles, last, calls, errStore,
          argResp, argErr, argMsg, retErr, pcCheck, link, form, pcForm>>

clientVars == <<basePathArg, optionsArg, g, handles, last>>
callVars   == <<calls, errStore>>
checkVars  == <<argResp, argErr, argMsg, retErr, pcCheck>>
formVars   == <<link, form, pcForm>>

(***************************************************************************)
(* Text helpers: the library functions the client calls.                   *)
(***************************************************************************)
urlSeparator == "/"

RECURSIVE Join(_, _)
\* strings.Join(path, sep): the elements of path with sep between them.
Join(path, sep) ==
    IF Len(path) = 0 THEN << >>
    ELSE IF Len(path) = 1 THEN path[1]
    ELSE path[1] \o <<sep>> \o Join(Tail(path), sep)

makeURL(path) == Join(path, urlSeparator)

\* Mutant: only one trailing separator is stripped (strings.TrimSuffix).
TrimRight_once(s, cutset) ==
    IF Len(s) > 0 /\ s[Len(s)] = cutset THEN SubSeq(s, 1, Len(s) - 1) ELSE s

RECURSIVE TrimRight(_, _)
\* strings.TrimRight(s, cutset): s without its trailing run of cutset chunks.
TrimRight(s, cutset) ==
    IF Len(s) > 0 /\ s[Len(s)] = cutset
    THEN TrimRight(SubSeq(s, 1, Len(s) - 1), cutset)
    ELSE s

Digit(d) == CASE d = 0 -> "0" [] d = 1 -> "1" [] d = 2 -> "2" [] d = 3 -> "3"
              [] d = 4 -> "4" [] d = 5 -> "5" [] d = 6 -> "6" [] d = 7 -> "7"
              [] d = 8 -> "8" [] d = 9 -> "9"

RECURSIVE Digits(_)
Digits(n) == IF n < 10 THEN <<Digit(n)>> ELSE Digits(n \div 10) \o <<Digit(n % 10)>>

\* strconv.Itoa(i): the decimal text of i, "-" first when i is negative.
Itoa(i) == IF i < 0 THEN <<"-">> \o Digits(0 - i) ELSE Digits(i)

(***************************************************************************)
(* Errors, responses and the error model.                                  *)
(***************************************************************************)
\* A Go error value: nil, or an error with its text and its nature.
NilErr == [isNil |-> TRUE, text |-> << >>, kind |-> "none"]
MkErr(text, kind) == [isNil |-> FALSE, text |-> text, kind |-> kind]

\* ParseAPIErrType: the classification of an error value into the closed
\* set of kinds; nil and everything unclassifiable is Unknown.
ParseAPIErrType(err) ==
    IF err.isNil THEN "Unknown"
    ELSE CASE err.kind = "connection" -> "Network"
           [] err.kind = "deadline"   -> "Timeout"
           [] err.kind = "decode"     -> "Parsing"
           [] OTHER                   -> "Unknown"

\* HTTPErrorResponse: the structured error body; typed says whether the
\* value registered with the request is a *HTTPErrorResponse at all.
NoHTTPError == [typed |-> FALSE, text |-> << >>]
HTTPErrorResponse(text) == [typed |-> TRUE, text |-> text]
NotEmpty(e) == Len(e.text) > 0
String(e) == e.text

\* A []byte: nil, or a (possibly empty) slice.
NilBytes == [isNil |-> TRUE, bytes |-> << >>]
Bytes(b) == [isNil |-> FALSE, bytes |-> b]

\* A *resty.Response: nil, or a response with its status code, status line,
\* body and the structured error registered with its request.
NilResp == [isNil |-> TRUE, StatusCode |-> 0, Status |-> << >>,
            Body |-> NilBytes, Error |-> NoHTTPError]
Response(code, reason, body, e) ==
    [isNil |-> FALSE, StatusCode |-> code,
     Status |-> Itoa(code) \o <<" ">> \o <<reason>>,
     Body |-> body, Error |-> e]

\* Mutant: every status outside 2xx counts as an error.
IsError_non2xx(resp) == ~(resp.StatusCode > 199 /\ resp.StatusCode < 300)

\* resty's Response.IsError: status code above 399.
IsError(resp) == resp.StatusCode > 399

\* The error a call returns: nil, or an *APIError.
NilAPIError == [isNil |-> TRUE, Code |-> 0, Message |-> << >>, Type |-> "none"]
APIError(code, message, type) ==
    [isNil |-> FALSE, Code |-> code, Message |-> message, Type |-> type]

\* errors.Wrap(err, message).Error() for a non-nil err.
Wrap(err, message) == message \o <<": ">> \o err.text

\* fmt.Sprintf("%s: %s", a, b)
Sprintf2(a, b) == a \o <<": ">> \o b

\* Mutant: the response is examined before the transport error.
checkForError_respFirst(resp, err, errMessage) ==
    IF ~resp.isNil /\ resp.StatusCode > 399
    THEN APIError(resp.StatusCode, Sprintf2(resp.Status, resp.Body.bytes),
                  ParseAPIErrType(err))
    ELSE IF ~err.isNil
    THEN APIError(0, Wrap(err, errMessage), ParseAPIErrType(err))
    ELSE IF resp.isNil
    THEN APIError(0, <<"empty response">>, ParseAPIErrType(err))
    ELSE NilAPIError

\* Mutant: a server-side status is labelled as a network failure.
checkForError_typeFromStatus(resp, err, errMessage) ==
    IF ~err.isNil
    THEN APIError(0, Wrap(err, errMessage), ParseAPIErrType(err))
    ELSE IF resp.isNil
    THEN APIError(0, <<"empty response">>, ParseAPIErrType(err))
    ELSE IF resp.StatusCode > 399
    THEN APIError(resp.StatusCode, resp.Status,
                  IF resp.StatusCode > 499 THEN "Network" ELSE ParseAPIErrType(err))
    ELSE NilAPIError

\* Mutant: the nil-response case is missing, a nil response passes as success.
checkForError_noNilCase(resp, err, errMessage) ==
    IF ~err.isNil
    THEN APIError(0, Wrap(err, errMessage), ParseAPIErrType(err))
    ELSE IF ~resp.isNil /\ resp.StatusCode > 399
    THEN APIError(resp.StatusCode, resp.Status, ParseAPIErrType(err))
    ELSE NilAPIError

checkForError(resp, err, errMessage) ==
    IF ~err.isNil
    THEN APIError(0, Wrap(err, errMessage), ParseAPIErrType(err))
    ELSE IF resp.isNil
    THEN APIError(0, <<"empty response">>, ParseAPIErrType(err))
    ELSE IF IsError(resp)
    THEN LET msg == IF resp.Error.typed /\ NotEmpty(resp.Error)
                    THEN Sprintf2(resp.Status, String(resp.Error))
                    ELSE IF ~resp.Body.isNil
                    THEN Sprintf2(resp.Status, resp.Body.bytes)
                    ELSE resp.Status
         IN  APIError(resp.StatusCode, msg, ParseAPIErrType(err))
    ELSE NilAPIError

(***************************************************************************)
(* The client: construction and the transport handle.                      *)
(***************************************************************************)
\* A handle is a *resty.Client.  resty.New() returns a fresh client with no
\* timeout; the other handles are clients the caller built and configured.
DefaultHandle == "resty.New"
NoTimeout == 0
DefaultTimeoutSeconds == 30

\* An option is a func(*GoZaya).  From outside the package it can reach the
\* exported Config fields and the exported methods.
OptEndpoint(e) == [kind |-> "GetLinkEndpoint", endpoint |-> e, handle |-> DefaultHandle]
OptResty(h)    == [kind |-> "SetRestyClient", endpoint |-> << >>, handle |-> h]

\* Mutant: the handle is stored as supplied, its timeout left alone.
SetRestyClient_asSupplied(w, restyClient) ==
    [g       |-> [w.g EXCEPT !.restyClient = restyClient],
     handles |-> w.handles]

\* SetRestyClient on a world w = [g, handles]: the handle is stored, and the
\* handle's own timeout is set to 30 seconds.
SetRestyClient(w, restyClient) ==
    [g       |-> [w.g EXCEPT !.restyClient = restyClient],
     handles |-> [w.handles EXCEPT ![restyClient] = [timeout |-> DefaultTimeoutSeconds]]]

ApplyOption(w, option) ==
    IF option.kind = "SetRestyClient"
    THEN SetRestyClient(w, option.handle)
    ELSE [w EXCEPT !.g.Config.GetLinkEndpoint = option.endpoint]

RECURSIVE ApplyOptions(_, _)
ApplyOptions(w, options) ==
    IF Len(options) = 0 THEN w
    ELSE ApplyOptions(ApplyOption(w, Head(options)), Tail(options))

\* NewClient on the heap hs of handles that exist before the call.
NewClient(basePath, options, hs) ==
    LET c == [basePath    |-> TrimRight(basePath, urlSeparator),
              restyClient |-> DefaultHandle,
              Config      |-> [CreateLinkEndpoint |-> makeURL(<<<<"api">>, <<"v1">>, <<"links">>>>),
                               GetLinkEndpoint    |-> makeURL(<<<<"api">>, <<"v1">>, <<"links">>>>)]]
    IN  ApplyOptions([g |-> c, handles |-> hs], options)

(***************************************************************************)
(* Request building.                                                       *)
(***************************************************************************)
\* Mutant: the HTTPErrorResponse is one package-level variable.
ErrorLocation_shared(p) == 1

\* The location of the HTTPErrorResponse a call registers with its request:
\* a local variable of GetRequest, so one location per call.
ErrorLocation(p) == p

\* A context: whether it carries a span, and whether the tracer's Inject
\* succeeds for it.
Contexts == {[span |-> FALSE, inject |-> FALSE],
             [span |-> TRUE,  inject |-> TRUE],
             [span |-> TRUE,  inject |-> FALSE]}

NoHeaders == [k \in {} |-> << >>]

SetHeader(req, k, v) == [req EXCEPT !.Header = (k :> v) @@ req.Header]
SetAuthToken(req, token) == [req EXCEPT !.Token = token, !.AuthScheme = "Bearer"]
SetFormData(req, data) == [req EXCEPT !.FormData = data @@ req.FormData]

injectTracingHeaders(ctx, req) ==
    IF ~ctx.span THEN req
    ELSE IF ~ctx.inject THEN req
    ELSE SetHeader(req, "Uber-Trace-Id", <<"span">>)

\* g.restyClient.R().SetContext(ctx).SetError(&err), then tracing.
GetRequest(c, ctx, p) ==
    injectTracingHeaders(ctx,
        [client |-> c.restyClient, ctx |-> ctx, Error |-> ErrorLocation(p),
         Token |-> << >>, AuthScheme |-> "", Header |-> NoHeaders,
         FormData |-> NoHeaders, Method |-> "", URL |-> << >>])

GetRequestWithBearerAuthNoCache(c, ctx, token, p) ==
    SetHeader(SetHeader(SetAuthToken(GetRequest(c, ctx, p), token),
                        "Content-Type", <<"application/json">>),
              "Cache-Control", <<"no-cache">>)

GetRequestWithBearerAuth(c, ctx, token, p) ==
    SetHeader(SetAuthToken(GetRequest(c, ctx, p), token),
              "Content-Type", <<"application/json">>)

GetRequestFormData(c, ctx, token, p) ==
    SetHeader(SetAuthToken(GetRequest(c, ctx, p), token),
              "Content-Type", <<"application/x-www-form-urlencoded">>)

Post(req, url) == [req EXCEPT !.Method = "POST", !.URL = url]
Get(req, url)  == [req EXCEPT !.Method = "GET",  !.URL = url]

(***************************************************************************)
(* CreateLink's form.                                                      *)
(***************************************************************************)
\* Mutant: an integer field is sent whether or not it is zero.
PutInt_always(k, v) == (k :> Itoa(v))

PutStr(k, v) == IF v # << >> THEN (k :> v) ELSE NoHeaders
PutInt(k, v) == IF v # 0 THEN (k :> Itoa(v)) ELSE NoHeaders

\* form := make(map[string]string), then one guarded store per field.
CreateLinkForm(l) ==
    PutStr("url", l.Url) @@
    PutStr("alias", l.Alias) @@
    PutStr("password", l.Password) @@
    PutInt("disable", l.Disable) @@
    PutInt("public", l.Public) @@
    PutStr("description", l.Description) @@
    PutStr("expiration_date", l.ExpirationDate) @@
    PutStr("expiration_time", l.ExpirationTime) @@
    PutInt("expiration_clicks", l.ExpirationClicks) @@
    PutInt("domain", l.Domain) @@
    PutStr("expiration_url", l.ExpirationUrl)

\* The request CreateLink sends.
CreateLinkRequest(c, ctx, token, l, p) ==
    Post(SetFormData(GetRequestFormData(c, ctx, token, p), CreateLinkForm(l)),
         c.basePath \o <<"/">> \o c.Config.CreateLinkEndpoint)

\* The request GetLink sends.
GetLinkRequest(c, ctx, token, id, p) ==
    Get(GetRequestWithBearerAuthNoCache(c, ctx, token, p),
        c.basePath \o <<"/">> \o c.Config.GetLinkEndpoint \o <<"/">> \o id)

\* Mutant: the result is returned next to the error.
ReturnValues_both(e) == [result |-> [isNil |-> FALSE], err |-> e]

\* What a domain operation returns for the error checkForError gave:
\* (nil, err) for an error, (&result, nil) otherwise.
NilResult == [isNil |-> TRUE]
ZeroResult == [isNil |-> FALSE]
ReturnValues(e) ==
    IF ~e.isNil THEN [result |-> NilResult, err |-> e]
    ELSE [result |-> ZeroResult, err |-> NilAPIError]

(***************************************************************************)
(* Bounds and input universes.                                             *)
(***************************************************************************)
NumCalls == 2        \* concurrent call sites
MaxPathLen == 3      \* chunks in a basePath argument
MaxStatusIdx == 9    \* how many of the status codes below are drawn

Slots == 1..NumCalls

RECURSIVE TextsUpTo(_, _)
\* every text of at most n chunks over the alphabet A
TextsUpTo(A, n) ==
    IF n = 0 THEN {<< >>}
    ELSE LET shorter == TextsUpTo(A, n - 1)
         IN  shorter \cup {Append(t, a) : t \in shorter, a \in A}

BasePathInputs == TextsUpTo({"https://zaya.io", urlSeparator}, MaxPathLen)

ExternalHandles == {"h1", "h2"}
Handles == {DefaultHandle} \cup ExternalHandles
Timeouts == {NoTimeout, 10, DefaultTimeoutSeconds, 60}

OptionInputs == {<< >>,
                 <<OptEndpoint(<<"v2">>)>>,
                 <<OptResty("h1")>>,
                 <<OptResty("h1"), OptResty("h2")>>}

StatusTable == <<[code |-> 404, reason |-> "Not Found"],
                 [code |-> 200, reason |-> "OK"],
                 [code |-> 304, reason |-> "Not Modified"],
                 [code |-> 500, reason |-> "Internal Server Error"],
                 [code |-> 101, reason |-> "Switching Protocols"],
                 [code |-> 399, reason |-> "Unassigned"],
                 [code |-> 400, reason |-> "Bad Request"],
                 [code |-> 299, reason |-> "Unassigned"],
                 [code |-> 300, reason |-> "Multiple Choices"],
                 [code |-> 199, reason |-> "Unassigned"],
                 [code |-> 599, reason |-> "Unassigned"]>>
StatusInputs ==
    {StatusTable[i] : i \in {j \in 1..Len(StatusTable) : j <= MaxStatusIdx}}

BodyInputs == {NilBytes, Bytes(<< >>), Bytes(<<"link not found">>)}
StructuredInputs == {NoHTTPError, HTTPErrorResponse(<< >>),
                     HTTPErrorResponse(<<"invalid_request">>)}
ErrInputs == {NilErr,
              MkErr(<<"dial tcp", ": ", "connection refused">>, "connection"),
              MkErr(<<"context deadline exceeded">>, "deadline"),
              MkErr(<<"invalid character">>, "decode"),
              MkErr(<<"unsupported protocol scheme">>, "other")}
MessageInputs == {<<"failed to create link">>, <<"failed to get link">>}

RespInputs ==
    {NilResp} \cup
    {Response(s.code, s.reason, b, e) :
        s \in StatusInputs, b \in BodyInputs, e \in StructuredInputs}

StrInputs == {<< >>, <<"x">>}
IntInputs == {0, 7, 130, -12}
LinkInputs ==
    [Url : StrInputs, Alias : StrInputs, Password : StrInputs,
     Disable : IntInputs, Public : IntInputs, Description : StrInputs,
     ExpirationDate : StrInputs, ExpirationTime : StrInputs,
     ExpirationClicks : IntInputs, Domain : IntInputs,
     ExpirationUrl : StrInputs]

EmptyLink ==
    [Url |-> << >>, Alias |-> << >>, Password |-> << >>, Disable |-> 0,
     Public |-> 0, Description |-> << >>, ExpirationDate |-> << >>,
     ExpirationTime |-> << >>, ExpirationClicks |-> 0, Domain |-> 0,
     ExpirationUrl |-> << >>]
UrlOnlyLink == [EmptyLink EXCEPT !.Url = <<"https://example.com">>]

(***************************************************************************)
(* Transport outcomes of one round trip.                                   *)
(***************************************************************************)
\* The response resty hands back together with a transport error: no raw
\* response, so status 0, an empty status line and an empty body.
ErrResp == [isNil |-> FALSE, StatusCode |-> 0, Status |-> << >>,
            Body |-> Bytes(<< >>), Error |-> NoHTTPError]

\* An outcome is (resp, err) plus what the transport decoded into the
\* request's registered error location (done only for an error status).
Outcome(resp, err, decoded) == [resp |-> resp, err |-> err, decoded |-> decoded]

WideOutcomes ==
    {Outcome(r, e, NoHTTPError) : r \in {NilResp, ErrResp}, e \in ErrInputs \ {NilErr}}
    \cup {Outcome(NilResp, NilErr, NoHTTPError)}
    \cup {Outcome(Response(s.code, s.reason, b, NoHTTPError), NilErr, d) :
            s \in StatusInputs, b \in BodyInputs,
            d \in StructuredInputs \ {NoHTTPError}}

NarrowOutcomes ==
    {o \in WideOutcomes :
        /\ o.err.kind \in {"none", "deadline"}
        /\ o.resp.StatusCode \in {0, 200, 304, 404}
        /\ o.resp.Body # NilBytes \/ o.resp.isNil
        /\ o.resp.Body = Bytes(<< >>) => o.decoded = HTTPErrorResponse(<< >>)}

\* The input universe of a specification's calls.
Narrow == [Ops |-> {"CreateLink", "GetLink"},
           Contexts |-> {c \in Contexts : c.span = c.inject},
           Tokens |-> {<<"tok">>},
           Ids |-> {<<"abc123">>},
           Links |-> {UrlOnlyLink},
           Outcomes |-> NarrowOutcomes]

Wide == [Ops |-> {"CreateLink", "GetLink"},
         Contexts |-> Contexts,
         Tokens |-> {<<"tok">>, <<"s3cr3t">>},
         Ids |-> {<<"abc123">>, << >>, <<"a", "/", "b">>},
         Links |-> {UrlOnlyLink, [UrlOnlyLink EXCEPT !.Domain = 7]},
         Outcomes |-> {o \in NarrowOutcomes : o.resp.StatusCode \in {0, 200}}]

(***************************************************************************)
(* The calls.  A call slot holds the locals of one CreateLink or GetLink   *)
(* call: idle -> built (request built from g) -> executed (round trip      *)
(* done) -> done (checkForError applied, values returned) -> idle.         *)
(***************************************************************************)
NoRequest == [client |-> "", ctx |-> [span |-> FALSE, inject |-> FALSE], Error |-> 0,
              Token |-> << >>, AuthScheme |-> "", Header |-> NoHeaders,
              FormData |-> NoHeaders, Method |-> "", URL |-> << >>]

IdleCall == [pc |-> "idle", op |-> "", token |-> << >>, id |-> << >>,
             link |-> EmptyLink, req |-> NoRequest, resp |-> NilResp,
             err |-> NilErr, delivered |-> NoHTTPError,
             ret |-> [result |-> NilResult, err |-> NilAPIError]]

ZeroHTTPError == HTTPErrorResponse(<< >>)

errMessageOf(op) ==
    IF op = "CreateLink" THEN <<"failed to create link">> ELSE <<"failed to get link">>

\* resp.Error(): the value at the location registered with the request.
Load(resp) == IF resp.isNil THEN resp ELSE [resp EXCEPT !.Error = errStore[resp.Error]]

\* CreateLink / GetLink up to the point the request is handed to the transport.
NewCall(p, U) ==
    /\ calls[p].pc = "idle"
    /\ \E op \in U.Ops, ctx \in U.Contexts, token \in U.Tokens,
          id \in U.Ids, l \in U.Links :
          LET req == IF op = "CreateLink"
                     THEN CreateLinkRequest(g, ctx, token, l, p)
                     ELSE GetLinkRequest(g, ctx, token, id, p)
          IN  /\ calls' = [calls EXCEPT ![p] =
                    [IdleCall EXCEPT !.pc = "built", !.op = op, !.token = token,
                        !.id = IF op = "GetLink" THEN id ELSE << >>,
                        !.link = IF op = "CreateLink" THEN l ELSE EmptyLink,
                        !.req = req]]
              /\ errStore' = [errStore EXCEPT ![req.Error] = ZeroHTTPError]
    /\ UNCHANGED <<clientVars, checkVars, formVars>>

\* The round trip: the transport returns (resp, err); for an error status it
\* decodes the body into the location registered with the request.
Transport(p, U) ==
    /\ calls[p].pc = "built"
    /\ \E o \in U.Outcomes :
          LET loc == calls[p].req.Error
              resp == IF o.resp.isNil THEN NilResp ELSE [o.resp EXCEPT !.Error = loc]
              store == IF ~resp.isNil /\ IsError(resp)
                       THEN [errStore EXCEPT ![loc] = o.decoded]
                       ELSE errStore
          IN  /\ errStore' = store
              /\ calls' = [calls EXCEPT ![p].pc = "executed", ![p].resp = resp,
                                        ![p].err = o.err, ![p].delivered = store[loc]]
    /\ UNCHANGED <<clientVars, checkVars, formVars>>

\* checkForError on the outcome, then the return statement.
Return(p) ==
    /\ calls[p].pc = "executed"
    /\ LET e == checkForError(Load(calls[p].resp), calls[p].err, errMessageOf(calls[p].op))
       IN  calls' = [calls EXCEPT ![p].pc = "done", ![p].ret = ReturnValues(e)]
    /\ UNCHANGED <<errStore, clientVars, checkVars, formVars>>

\* The caller has taken the returned values; the call's locals are dead.
Finish(p) ==
    /\ calls[p].pc = "done"
    /\ calls' = [calls EXCEPT ![p] = IdleCall]
    /\ errStore' = [errStore EXCEPT ![calls[p].req.Error] = ZeroHTTPError]
    /\ UNCHANGED <<clientVars, checkVars, formVars>>

(***************************************************************************)
(* Client-level operations.  They are configuration-time operations: they  *)
(* run while no call is in flight.                                         *)
(***************************************************************************)
NoCallInFlight == \A p \in Slots : calls[p].pc = "idle"

SetRestyClientCall(h) ==
    /\ NoCallInFlight
    /\ LET w == SetRestyClient([g |-> g, handles |-> handles], h)
       IN  /\ g' = w.g
           /\ handles' = w.handles
    /\ last' = [op |-> "SetRestyClient", handle |-> h, prior |-> handles[h].timeout]
    /\ UNCHANGED <<basePathArg, optionsArg, callVars, checkVars, formVars>>

\* The owner of a handle (the caller, or anyone who took it from
\* RestyClient()) configures its timeout.
ConfigureTimeout(h, t) ==
    /\ NoCallInFlight
    /\ handles[h].timeout # t
    /\ handles' = [handles EXCEPT ![h] = [timeout |-> t]]
    /\ last' = [op |-> "SetTimeout", handle |-> h, prior |-> handles[h].timeout]
    /\ UNCHANGED <<basePathArg, optionsArg, g, callVars, checkVars, formVars>>

(***************************************************************************)
(* checkForError and CreateLink's form on arbitrary arguments.             *)
(***************************************************************************)
Check ==
    /\ pcCheck = "ready"
    /\ retErr' = checkForError(argResp, argErr, argMsg)
    /\ pcCheck' = "returned"
    /\ UNCHANGED <<argResp, argErr, argMsg, clientVars, callVars, formVars>>

BuildForm ==
    /\ pcForm = "ready"
    /\ form' = CreateLinkRequest(g, [span |-> FALSE, inject |-> FALSE],
                                 <<"tok">>, link, 1).FormData
    /\ pcForm' = "sent"
    /\ UNCHANGED <<link, clientVars, callVars, checkVars>>

(***************************************************************************)
(* Initial states and specifications.                                      *)
(***************************************************************************)
InitClient(BasePaths, OptionLists, Priors) ==
    \E bp \in BasePaths, opts \in OptionLists, prior \in [ExternalHandles -> Priors] :
        LET hs == [h \in Handles |->
                     IF h = DefaultHandle THEN [timeout |-> NoTimeout]
                     ELSE [timeout |-> prior[h]]]
            w == NewClient(bp, opts, hs)
        IN  /\ basePathArg = bp
            /\ optionsArg = opts
            /\ g = w.g
            /\ handles = w.handles
            /\ last = [op |-> "NewClient", handle |-> w.g.restyClient, prior |-> NoTimeout]

FixedClient == InitClient({<<"https://zaya.io", "/">>}, {<< >>}, {60})

NoCalls ==
    /\ calls = [p \in Slots |-> IdleCall]
    /\ errStore = [p \in Slots |-> ZeroHTTPError]

CheckOff ==
    /\ argResp = NilResp /\ argErr = NilErr /\ argMsg = << >>
    /\ retErr = NilAPIError /\ pcCheck = "off"

FormOff == link = EmptyLink /\ form = NoHeaders /\ pcForm = "off"

\* Concurrent CreateLink and GetLink calls on one client.
Init == FixedClient /\ NoCalls /\ CheckOff /\ FormOff
Next ==
    \E p \in Slots :
        \/ NewCall(p, Narrow)
        \/ Transport(p, Narrow)
        \/ Return(p)
        \/ Finish(p)
Spec == Init /\ [][Next]_vars

\* One call site, any basePath, options, id and token.
InitURL == InitClient(BasePathInputs, OptionInputs, {60}) /\ NoCalls /\ CheckOff /\ FormOff
NextURL ==
    \/ NewCall(1, Wide)
    \/ Transport(1, Wide)
    \/ Return(1)
    \/ Finish(1)
SpecURL == InitURL /\ [][NextURL]_vars

\* Configuration: the transport handle is replaced and reconfigured.
InitHandle ==
    InitClient({<<"https://zaya.io">>}, OptionInputs, Timeouts) /\ NoCalls /\ CheckOff /\ FormOff
NextHandle ==
    \/ \E h \in Handles : SetRestyClientCall(h)
    \/ \E h \in Handles, t \in Timeouts : ConfigureTimeout(h, t)
SpecHandle == InitHandle /\ [][NextHandle]_vars

\* checkForError on every response, error and context message.
InitCheck ==
    /\ FixedClient /\ NoCalls /\ FormOff
    /\ argResp \in RespInputs
    /\ argErr \in ErrInputs
    /\ argMsg \in MessageInputs
    /\ retErr = NilAPIError
    /\ pcCheck = "ready"
NextCheck == Check
SpecCheck == InitCheck /\ [][NextCheck]_vars

\* CreateLink's form for every GenerateLinkRequest.
InitForm ==
    /\ FixedClient /\ NoCalls /\ CheckOff
    /\ link \in LinkInputs
    /\ form = NoHeaders
    /\ pcForm = "ready"
NextForm == BuildForm
SpecForm == InitForm /\ [][NextForm]_vars

(***************************************************************************)
(* Properties of checkForError (SpecCheck).                                *)
(***************************************************************************)
Returned == pcCheck = "returned"

\* C1: whenever the transport error is non-nil the result is an APIError
\* with Code 0 and Message "<context message>: <transport error text>",
\* for every response (nil, 2xx or not); status and body play no part.
C1_TransportErrorFirst ==
    (Returned /\ ~argErr.isNil) =>
        /\ ~retErr.isNil
        /\ retErr.Code = 0
        /\ retErr.Message = argMsg \o <<": ">> \o argErr.text

C1_Witness ==
    /\ Returned /\ ~argErr.isNil
    /\ ~argResp.isNil /\ argResp.StatusCode = 404
    /\ argResp.Body = Bytes(<<"link not found">>)
    /\ retErr.Code = 0

Is2xx(code) == code >= 200 /\ code <= 299

\* C2 as stated: with a nil transport error and a non-nil response, a
\* non-nil APIError with Code = status for every non-2xx status, and nil
\* only for 2xx.
C2_Non2xxIsError ==
    (Returned /\ argErr.isNil /\ ~argResp.isNil) =>
        IF Is2xx(argResp.StatusCode)
        THEN retErr.isNil
        ELSE ~retErr.isNil /\ retErr.Code = argResp.StatusCode

\* C2 amended: with a nil transport error and a non-nil response, a
\* non-nil APIError with Code = status for every status of 400 and above,
\* and nil for every status below 400 (1xx and 3xx as well as 2xx).
C2_Above399IsError ==
    (Returned /\ argErr.isNil /\ ~argResp.isNil) =>
        IF argResp.StatusCode >= 400
        THEN ~retErr.isNil /\ retErr.Code = argResp.StatusCode
        ELSE retErr.isNil

C2_Witness ==
    /\ Returned /\ argErr.isNil /\ ~argResp.isNil
    /\ argResp.StatusCode = 304
    /\ retErr.isNil

\* C3: for an error response the message is "<status line>: <structured
\* error>" when the structured error decoded and is non-empty; otherwise
\* "<status line>: <raw body>" when the raw body text is non-empty;
\* otherwise the status line alone (no body, or a zero-length body).
C3_MessagePriority ==
    (Returned /\ argErr.isNil /\ ~argResp.isNil /\ ~retErr.isNil) =>
        retErr.Message =
            IF argResp.Error.typed /\ argResp.Error.text # << >>
            THEN argResp.Status \o <<": ">> \o argResp.Error.text
            ELSE IF argResp.Body.bytes # << >>
            THEN argResp.Status \o <<": ">> \o argResp.Body.bytes
            ELSE argResp.Status

\* C8: the Type depends on the transport error alone: every response gives
\* the same Type for the same transport error, and every empty-response or
\* HTTP-status failure carries the Type of a nil error, Unknown.
C8_TypeFromErrorOnly ==
    (Returned /\ ~retErr.isNil) =>
        /\ \A r \in RespInputs :
              LET other == checkForError(r, argErr, argMsg)
              IN  ~other.isNil => other.Type = retErr.Type
        /\ argErr.isNil => retErr.Type = "Unknown"

C8_Witness ==
    /\ Returned /\ argErr.isNil /\ ~argResp.isNil
    /\ argResp.StatusCode = 500 /\ retErr.Type = "Unknown"

\* C9: a nil response with a nil transport error gives an APIError with
\* Message exactly "empty response" and Code 0.
C9_EmptyResponse ==
    (Returned /\ argErr.isNil /\ argResp.isNil) =>
        /\ ~retErr.isNil
        /\ retErr.Message = <<"empty response">>
        /\ retErr.Code = 0

C9_Witness ==
    /\ Returned /\ argErr.isNil /\ argResp.isNil
    /\ retErr.Message = <<"empty response">>

(***************************************************************************)
(* Properties of the domain operations.                                    *)
(***************************************************************************)
\* C4: CreateLink and GetLink return exactly one of a result and an error:
\* a non-nil ResponseModel with a nil error, or a nil ResponseModel with a
\* non-nil APIError, whatever the transport outcome.
C4_ResultXorError ==
    \A p \in Slots :
        calls[p].pc = "done" =>
            \/ ~calls[p].ret.result.isNil /\ calls[p].ret.err.isNil
            \/ calls[p].ret.result.isNil /\ ~calls[p].ret.err.isNil

C4_Witness ==
    /\ calls[1].pc = "done" /\ calls[1].op = "CreateLink"
    /\ ~calls[1].err.isNil /\ ~calls[1].ret.err.isNil
    /\ calls[2].pc = "done" /\ calls[2].op = "GetLink"
    /\ calls[2].resp.StatusCode = 200 /\ ~calls[2].ret.result.isNil

FormKeyField ==
    [k \in {"url", "alias", "password", "disable", "public", "description",
            "expiration_date", "expiration_time", "expiration_clicks",
            "domain", "expiration_url"} |->
        CASE k = "url" -> "Url"
          [] k = "alias" -> "Alias"
          [] k = "password" -> "Password"
          [] k = "disable" -> "Disable"
          [] k = "public" -> "Public"
          [] k = "description" -> "Description"
          [] k = "expiration_date" -> "ExpirationDate"
          [] k = "expiration_time" -> "ExpirationTime"
          [] k = "expiration_clicks" -> "ExpirationClicks"
          [] k = "domain" -> "Domain"
          [] k = "expiration_url" -> "ExpirationUrl"]
IntKeys == {"disable", "public", "expiration_clicks", "domain"}

DecimalDigits == <<"0", "1", "2", "3", "4", "5", "6", "7", "8", "9">>
IsDigit(c) == \E i \in 1..10 : DecimalDigits[i] = c
DigitValue(c) == (CHOOSE i \in 1..10 : DecimalDigits[i] = c) - 1

RECURSIVE ParseNat(_)
ParseNat(t) ==
    IF Len(t) = 0 THEN 0
    ELSE 10 * ParseNat(SubSeq(t, 1, Len(t) - 1)) + DigitValue(t[Len(t)])

\* t is the decimal string of the non-zero integer n: an optional "-", then
\* digits without a leading zero, reading back as n.
IsDecimalOf(t, n) ==
    LET digits == IF n < 0 THEN Tail(t) ELSE t
    IN  /\ Len(t) > 0
        /\ n < 0 => t[1] = "-"
        /\ Len(digits) > 0
        /\ \A i \in 1..Len(digits) : IsDigit(digits[i])
        /\ digits[1] # "0"
        /\ ParseNat(digits) = (IF n < 0 THEN 0 - n ELSE n)

FieldIsSet(k) ==
    IF k \in IntKeys THEN link[FormKeyField[k]] # 0 ELSE link[FormKeyField[k]] # << >>

\* C5: the form CreateLink sends holds a key exactly when the field is
\* non-empty (strings) or non-zero (integers), over the eleven keys; string
\* values unchanged, integer values as decimal strings.  Only Url set sends
\* exactly the key url; all fields set sends all eleven keys.
C5_SparseForm ==
    pcForm = "sent" =>
        /\ DOMAIN form \subseteq DOMAIN FormKeyField
        /\ \A k \in DOMAIN FormKeyField :
              LET v == link[FormKeyField[k]]
              IN  IF k \in IntKeys
                  THEN /\ (k \in DOMAIN form) <=> (v # 0)
                       /\ (k \in DOMAIN form) => IsDecimalOf(form[k], v)
                  ELSE /\ (k \in DOMAIN form) <=> (v # << >>)
                       /\ (k \in DOMAIN form) => form[k] = v
        /\ (link = [EmptyLink EXCEPT !.Url = link.Url] /\ link.Url # << >>)
              => DOMAIN form = {"url"}
        /\ (\A k \in DOMAIN FormKeyField : FieldIsSet(k))
              => Cardinality(DOMAIN form) = 11

C5_Witness ==
    /\ pcForm = "sent"
    /\ \A k \in DOMAIN FormKeyField : FieldIsSet(k)
    /\ link.Domain = -12 /\ link.Disable = 130
    /\ Cardinality(DOMAIN form) = 11
    /\ form["domain"] = <<"-", "1", "2">>

RECURSIVE Separators(_)
Separators(n) == IF n = 0 THEN << >> ELSE <<"/">> \o Separators(n - 1)

\* C6: for every basePath with any number of trailing "/" and every id, a
\* client built with no options stores a base path that does not end with
\* "/" (the argument less its trailing separators), and GetLink targets
\* exactly <base path> "/api/v1/links/" <id>, as a GET carrying the bearer
\* token and Cache-Control: no-cache.
C6_GetLinkTarget ==
    optionsArg = << >> =>
        /\ (g.basePath = << >> \/ g.basePath[Len(g.basePath)] # "/")
        /\ \E n \in 0..Len(basePathArg) : basePathArg = g.basePath \o Separators(n)
        /\ \A p \in Slots :
              (calls[p].pc = "built" /\ calls[p].op = "GetLink") =>
                  /\ calls[p].req.URL =
                        g.basePath \o <<"/", "api", "/", "v1", "/", "links", "/">>
                                   \o calls[p].id
                  /\ calls[p].req.Method = "GET"
                  /\ calls[p].req.Token = calls[p].token
                  /\ calls[p].req.AuthScheme = "Bearer"
                  /\ "Cache-Control" \in DOMAIN calls[p].req.Header
                  /\ calls[p].req.Header["Cache-Control"] = <<"no-cache">>

C6_Witness ==
    /\ optionsArg = << >>
    /\ basePathArg = <<"https://zaya.io", "/", "/">>
    /\ calls[1].pc = "built" /\ calls[1].op = "GetLink"
    /\ calls[1].id = <<"abc123">>
    /\ calls[1].req.URL = <<"https://zaya.io", "/", "api", "/", "v1", "/",
                            "links", "/", "abc123">>

\* C7: after every SetRestyClient call the client's transport handle is the
\* supplied handle and that handle's timeout is 30 seconds, whatever its
\* timeout was before.
C7_SetRestyClientTimeout ==
    last.op = "SetRestyClient" =>
        /\ g.restyClient = last.handle
        /\ handles[g.restyClient].timeout = 30

C7_Witness ==
    /\ last.op = "SetRestyClient" /\ last.handle = "h2" /\ last.prior = 60
    /\ g.restyClient = "h2" /\ handles["h2"].timeout = 30

\* What a call returns, from its own operation and its own round trip.
OwnReturn(c) ==
    ReturnValues(checkForError(
        IF c.resp.isNil THEN c.resp ELSE [c.resp EXCEPT !.Error = c.delivered],
        c.err, errMessageOf(c.op)))

\* C10: under any interleaving of CreateLink and GetLink calls on one
\* client, every step of a call leaves the base path, the endpoint
\* configuration and the transport handle as they were and touches no other
\* call's locals; calls in flight hold distinct structured-error locations;
\* and what a call returns is determined by its own operation and its own
\* transport outcome.
C10_CallsIndependent ==
    [][\A p \in Slots :
          /\ calls'[p] # calls[p] =>
                /\ g' = g /\ handles' = handles
                /\ \A q \in Slots \ {p} : calls'[q] = calls[q]
          /\ \A q \in Slots \ {p} :
                (calls'[p].pc # "idle" /\ calls'[q].pc # "idle")
                    => calls'[p].req.Error # calls'[q].req.Error
          /\ calls'[p].pc = "done" => calls'[p].ret = OwnReturn(calls'[p])]_vars

C10_Witness ==
    /\ calls[1].pc = "done" /\ calls[1].resp.StatusCode = 404
    /\ calls[1].delivered = HTTPErrorResponse(<<"invalid_request">>)
    /\ calls[1].ret.err.Message = <<"4", "0", "4", " ", "Not Found", ": ", "invalid_request">>
    /\ calls[2].pc = "done" /\ calls[2].resp.StatusCode = 404
    /\ calls[2].delivered = ZeroHTTPError
    /\ calls[2].ret.err.Message = <<"4", "0", "4", " ", "Not Found", ": ", "link not found">>

====
